---- MODULE Spec2Model ----
(***************************************************************************)
(* Model of src/utils.py: the analysis facade (analyze_content,            *)
(* analyze_text), the three modality analyzers (image_score_ml,            *)
(* process_audio_file, text_score_ml) and the cached handle getters.       *)
(*                                                                         *)
(* A single caller runs one analysis at a time.  A call is split at every  *)
(* collaborator invocation, so that each collaborator can either return or *)
(* raise; pc is the position of the call inside the analyzer.              *)
(*                                                                         *)
(* Strings whose content matters are modelled concretely:                  *)
(*   - a label is a sequence of one-character strings;                     *)
(*   - a text is a run-length encoding: a sequence of runs                 *)
(*     [ws |-> is-whitespace, n |-> length];                               *)
(*   - a confidence is a fraction [num, den].                              *)
(***************************************************************************)
EXTENDS Integers, Sequences, FiniteSets, TLC

VARIABLES
    pc,        \* position of the caller: "idle", a step of an analyzer, "returned"
    call,      \* arguments of the call in progress
    progress,  \* last value handed to progress_bar.progress
    cache,     \* st.cache_resource: capability -> handle already built
    tmp,       \* the temporary artifact of the call: "none", "exists", "deleted"
    tmp_path,  \* whether the local tmp_path is bound
    exc,       \* the exception in flight ("none" when there is none)
    pending,   \* return value computed inside the inner try, held during finally
    out,       \* what the inference collaborator returned
    passed,    \* the text handed to the text detector
    log,       \* invocations made during the call: <<collaborator, outcome>>
    result,    \* the (score, details) pair the call returned
    escaped    \* an exception left analyze_content / analyze_text

vars == <<pc, call, progress, cache, tmp, tmp_path, exc, pending, out, passed,
          log, result, escaped>>

-----------------------------------------------------------------------------
(* Bounds and input domains *)

MaxRuns == 3

\* run lengths around the guard (49, 50) and long enough to reach the cut (975)
RunLens == {49, 50, 975}

MinTextLen == 50

MaxChars == 1000

Capabilities == {"image", "audio", "text"}

Modalities == {"Image", "Video", "Audio", "Text", "image", "Document"}

DeclaredModalities == {"Image", "Video", "Audio", "Text"}

FileBytes == {"bytes", "None"}

Filenames == {"clip.wav", "None"}

\* A text of k alternating runs, the first one whitespace iff b.
MkText(b, lens) ==
    [i \in 1..Len(lens) |-> [ws |-> (b = (i % 2 = 1)), n |-> lens[i]]]

RunSeqs == UNION {[1..k -> RunLens] : k \in 0..MaxRuns}

TextValues ==
    {[isStr |-> TRUE, runs |-> MkText(b, l)] : b \in BOOLEAN, l \in RunSeqs}
    \cup {[isStr |-> FALSE, runs |-> <<>>]}

NoText == [isStr |-> FALSE, runs |-> <<>>]

Labels ==
    { <<"R","e","a","l">>,
      <<"R","e","a","l","i","s","m">>,
      <<"F","A","K","E">>,
      <<"b","o","n","a","f","i","d","e">>,
      <<"s","p","o","o","f">>,
      <<"H","u","m","a","n">>,
      <<"L","A","B","E","L","_","1">>,
      <<"h","u","m","a","n","-","g","e","n","e","r","a","t","e","d">>,
      <<"r","e","a","l","/","f","a","k","e">> }

\* confidences 0, 1/2, 41/50 (0.82), 9/10, 1 and the out-of-range 3/2
Confidences ==
    { [num |-> 0, den |-> 1], [num |-> 1, den |-> 2], [num |-> 41, den |-> 50],
      [num |-> 9, den |-> 10], [num |-> 1, den |-> 1], [num |-> 3, den |-> 2] }

\* What an inference collaborator can return: a ranked list, possibly empty.
Outputs == {<<>>} \cup {<<[label |-> l, score |-> c]>> : l \in Labels, c \in Confidences}

-----------------------------------------------------------------------------
(* Strings *)

Upper == <<"A","B","C","D","E","F","G","H","I","J","K","L","M",
           "N","O","P","Q","R","S","T","U","V","W","X","Y","Z">>

LowerAlpha == <<"a","b","c","d","e","f","g","h","i","j","k","l","m",
                "n","o","p","q","r","s","t","u","v","w","x","y","z">>

LowerChar(c) ==
    IF \E i \in 1..Len(Upper) : Upper[i] = c
    THEN LowerAlpha[CHOOSE i \in 1..Len(Upper) : Upper[i] = c]
    ELSE c

\* str.lower()
Lower(s) == [i \in 1..Len(s) |-> LowerChar(s[i])]

\* `sub in s`
Contains(s, sub) ==
    \E i \in 1..(Len(s) - Len(sub) + 1) : SubSeq(s, i, i + Len(sub) - 1) = sub

S_real == <<"r","e","a","l">>
S_realism == <<"r","e","a","l","i","s","m">>
S_bonafide == <<"b","o","n","a","f","i","d","e">>
S_human == <<"h","u","m","a","n">>
S_fake == <<"f","a","k","e">>
S_generated == <<"g","e","n","e","r","a","t","e","d">>
S_spoof == <<"s","p","o","o","f">>

RECURSIVE StrLen(_)
\* len(text)
StrLen(t) == IF t = <<>> THEN 0 ELSE Head(t).n + StrLen(Tail(t))

RECURSIVE LStrip(_)
LStrip(t) == IF t = <<>> THEN <<>>
             ELSE IF Head(t).ws THEN LStrip(Tail(t)) ELSE t

RECURSIVE RStrip(_)
RStrip(t) == IF t = <<>> THEN <<>>
             ELSE IF t[Len(t)].ws THEN RStrip(SubSeq(t, 1, Len(t) - 1)) ELSE t

\* text.strip()
Strip(t) == RStrip(LStrip(t))

RECURSIVE Prefix(_, _)
\* text[:k]
Prefix(t, k) ==
    IF t = <<>> \/ k = 0 THEN <<>>
    ELSE IF Head(t).n <= k
         THEN <<Head(t)>> \o Prefix(Tail(t), k - Head(t).n)
         ELSE <<[ws |-> Head(t).ws, n |-> k]>>

-----------------------------------------------------------------------------
(* Scores *)

\* out[0]["score"] * 100.0
Times100(c) == (c.num * 100) \div c.den

\* a slip: inverts the percentage instead of the confidence
OneMinusOfPercent(c) == 1 - Times100(c)

\* (1 - out[0]["score"]) * 100.0
Inverted(c) == ((c.den - c.num) * 100) \div c.den

ImageAuthentic(label) == Contains(label, S_real) \/ Contains(label, S_realism)

AudioAuthentic(label) == Contains(label, S_real) \/ Contains(label, S_bonafide)

TextFake(label) == Contains(label, S_fake) \/ Contains(label, S_generated)

TextAuthentic(label) == Contains(label, S_real) \/ Contains(label, S_human)

ImageScore(o) ==
    LET label == Lower(o[1].label)
    IN  IF ImageAuthentic(label) THEN Inverted(o[1].score) ELSE Times100(o[1].score)

AudioScore(o) ==
    LET label == Lower(o[1].label)
    IN  IF AudioAuthentic(label) THEN Inverted(o[1].score) ELSE Times100(o[1].score)

\* treats an unrecognised label as authentic
TextLikelihoodUnknownInverts(o) ==
    LET label == Lower(o[1].label)
        score == Times100(o[1].score)
    IN  IF TextFake(label) THEN score ELSE 100 - score

\* the polarity table of text_score_ml: fake first, then authentic, else direct
TextLikelihood(o) ==
    LET label == Lower(o[1].label)
        score == Times100(o[1].score)
    IN  IF TextFake(label) THEN score
        ELSE IF TextAuthentic(label) THEN 100 - score
        ELSE score

-----------------------------------------------------------------------------
(* Results *)

NoResult == [score |-> 0, details |-> [none |-> TRUE]]

ErrorResult(prefix, e) == [score |-> 0, details |-> [error |-> prefix \o e]]

TooShortResult(t) ==
    [score |-> 0,
     details |-> [error |-> "Text is too short for accurate analysis",
                  text_length |-> StrLen(t)]]

UnsupportedResult == [score |-> 0, details |-> [error |-> "Unsupported modality"]]

\* image and audio return the raw classification list as details
RawResult(s, o) == [score |-> s, details |-> [raw |-> o]]

TextResult(o) ==
    [score |-> TextLikelihood(o),
     details |-> [detector_label |-> Lower(o[1].label),
                  detector_confidence |-> Times100(o[1].score)]]

-----------------------------------------------------------------------------
(* Exceptions *)

\* the classes raised in the model, all subclasses of Exception
ExceptionClasses ==
    {"TypeError", "AttributeError", "IndexError", "OSError", "RuntimeError"}

\* a narrower clause: except OSError
CatchesOSErrorOnly(e) == e = "OSError"

\* `except Exception as e`
Catches(e) == e \in ExceptionClasses

\* a retry: a failed inference is attempted once more
HandlerRetryingInference(p) ==
    IF p \in {"img_infer", "aud_infer", "txt_infer"} /\ exc = "none" THEN p
    ELSE IF p \in {"img_get", "img_open", "img_infer"} THEN "img_except"
    ELSE IF p \in {"aud_load", "aud_encode", "aud_get", "aud_infer"} THEN "aud_finally"
    ELSE IF p \in {"aud_tmp", "aud_write", "aud_finally"} THEN "aud_except"
    ELSE "txt_except"

\* Where control goes when an exception is raised at position p: the except
\* clause of the enclosing try, or the finally block of the inner try.
Handler(p) ==
    IF p \in {"img_get", "img_open", "img_infer"} THEN "img_except"
    ELSE IF p \in {"aud_load", "aud_encode", "aud_get", "aud_infer"} THEN "aud_finally"
    ELSE IF p \in {"aud_tmp", "aud_write", "aud_finally"} THEN "aud_except"
    ELSE "txt_except"

\* `who` raises e at the current position
Raise(who, e) ==
    /\ exc' = e
    /\ pc' = Handler(pc)
    /\ log' = Append(log, <<who, "raise">>)

\* `who` returns normally; the call moves on to `next`
Return(who, next) ==
    /\ pc' = next
    /\ log' = Append(log, <<who, "ok">>)
    /\ exc' = exc

-----------------------------------------------------------------------------
(* State *)

NoCall ==
    [fn |-> "none", modality |-> "none", file_bytes |-> "None",
     filename |-> "None", text |-> NoText, progress_bar |-> FALSE]

Init ==
    /\ pc = "idle"
    /\ call = NoCall
    /\ progress = 0
    /\ cache = [c \in Capabilities |-> FALSE]
    /\ tmp = "none"
    /\ tmp_path = FALSE
    /\ exc = "none"
    /\ pending = NoResult
    /\ out = <<>>
    /\ passed = <<>>
    /\ log = <<>>
    /\ result = NoResult
    /\ escaped = FALSE

\* the per-call state at the entry of a call
Enter(c) ==
    /\ pc = "idle"
    /\ call' = c
    /\ progress' = IF c.progress_bar THEN 100 ELSE progress
    /\ tmp' = "none"
    /\ tmp_path' = FALSE
    /\ pending' = NoResult
    /\ out' = <<>>
    /\ passed' = <<>>
    /\ escaped' = FALSE
    /\ cache' = cache

-----------------------------------------------------------------------------
(* Cached handle getters *)

\* get_image_pipe / get_audio_pipe / get_text_detector under st.cache_resource:
\* a built handle is returned as it is; otherwise the pipeline is constructed,
\* and kept only if the construction did not raise.
GetHandle(cap, who, next) ==
    /\ \/ /\ cache[cap]
          /\ cache' = cache
          /\ Return(who, next)
       \/ /\ ~cache[cap]
          /\ cache' = [cache EXCEPT ![cap] = TRUE]
          /\ Return(who, next)
       \/ /\ ~cache[cap]
          /\ cache' = cache
          /\ Raise(who, "RuntimeError")
    /\ UNCHANGED <<call, progress, tmp, tmp_path, pending, out, passed, result, escaped>>

get_image_pipe == pc = "img_get" /\ GetHandle("image", "get_image_pipe", "img_open")

get_audio_pipe == pc = "aud_get" /\ GetHandle("audio", "get_audio_pipe", "aud_infer")

get_text_detector == pc = "txt_get" /\ GetHandle("text", "get_text_detector", "txt_infer")

-----------------------------------------------------------------------------
(* Facade *)

\* dispatches every modality but "Audio" to the image analyzer
IsImageModalityByDefault(m) == m # "Audio"

\* modality in ["Image", "Video"]
IsImageModality(m) == m \in {"Image", "Video"}

\* analyze_content: the progress loop, then the dispatch by modality
analyze_content(m, b, pb, f) ==
    /\ Enter([fn |-> "analyze_content", modality |-> m, file_bytes |-> b,
              filename |-> f, text |-> NoText, progress_bar |-> pb])
    /\ exc' = "none"
    /\ log' = <<>>
    /\ IF IsImageModality(m)
         THEN pc' = "img_get" /\ result' = NoResult
       ELSE IF m = "Audio"
         THEN pc' = "aud_tmp" /\ result' = NoResult
       ELSE pc' = "returned" /\ result' = UnsupportedResult

\* tests the length of the text as given
TooShortUnstripped(t) == StrLen(t) < MinTextLen

\* len(text.strip()) < 50
TooShort(t) == StrLen(Strip(t)) < MinTextLen

\* analyze_text: the progress loop, then text_score_ml up to its first
\* collaborator (the length guard)
analyze_text(t, pb) ==
    /\ Enter([fn |-> "analyze_text", modality |-> "none", file_bytes |-> "None",
              filename |-> "None", text |-> t, progress_bar |-> pb])
    /\ IF ~t.isStr
         THEN /\ exc' = "AttributeError"
              /\ log' = <<<<"text.strip", "raise">>>>
              /\ pc' = Handler("txt_check")
              /\ result' = NoResult
       ELSE IF TooShort(t.runs)
         THEN /\ exc' = "none"
              /\ log' = <<>>
              /\ pc' = "returned"
              /\ result' = TooShortResult(t.runs)
       ELSE /\ exc' = "none"
            /\ log' = <<>>
            /\ pc' = "txt_get"
            /\ result' = NoResult

-----------------------------------------------------------------------------
(* Inference *)

\* out = pipe(...); out[0] raises IndexError on an empty list
Infer(who, after) ==
    \/ \E o \in Outputs \ {<<>>} :
          /\ out' = o
          /\ Return(who, after)
    \/ /\ out' = <<>>
       /\ exc' = "IndexError"
       /\ pc' = Handler(pc)
       /\ log' = log \o <<<<who, "ok">>, <<"out[0]", "raise">>>>
    \/ /\ out' = out
       /\ Raise(who, "RuntimeError")

-----------------------------------------------------------------------------
(* Text analyzer: text_score_ml after the length guard *)

\* out = detector(text[:1000]); return likelihood, {...}
TextDetector ==
    /\ pc = "txt_infer"
    /\ passed' = Prefix(call.text.runs, MaxChars)
    /\ Infer("detector", "returned")
    /\ result' = IF pc' = "returned" THEN TextResult(out') ELSE result
    /\ UNCHANGED <<call, progress, cache, tmp, tmp_path, pending, escaped>>

-----------------------------------------------------------------------------
(* Image analyzer: image_score_ml *)

\* Image.open(io.BytesIO(image_bytes)).convert("RGB")
ImageOpen ==
    /\ pc = "img_open"
    /\ \/ /\ call.file_bytes = "bytes"
          /\ Return("Image.open", "img_infer")
       \/ Raise("Image.open", "OSError")
    /\ UNCHANGED <<call, progress, cache, tmp, tmp_path, pending, out, passed,
                   result, escaped>>

\* out = pipe(pil); return score, out
ImagePipe ==
    /\ pc = "img_infer"
    /\ Infer("image_pipe", "returned")
    /\ result' = IF pc' = "returned" THEN RawResult(ImageScore(out'), out') ELSE result
    /\ UNCHANGED <<call, progress, cache, tmp, tmp_path, pending, passed, escaped>>

-----------------------------------------------------------------------------
(* Audio analyzer: process_audio_file *)

\* os.path.splitext(filename)[1], then tempfile.NamedTemporaryFile(delete=False)
NamedTemporaryFile ==
    /\ pc = "aud_tmp"
    /\ IF call.filename = "None"
         THEN /\ Raise("os.path.splitext", "TypeError")
              /\ tmp' = tmp
         ELSE \/ /\ tmp' = "exists"
                 /\ Return("NamedTemporaryFile", "aud_write")
              \/ /\ tmp' = tmp
                 /\ Raise("NamedTemporaryFile", "OSError")
    /\ UNCHANGED <<call, progress, cache, tmp_path, pending, out, passed,
                   result, escaped>>

\* tmp.write(audio_bytes); tmp_path = tmp.name
TmpWrite ==
    /\ pc = "aud_write"
    /\ IF call.file_bytes = "None"
         THEN /\ Raise("tmp.write", "TypeError")
              /\ tmp_path' = FALSE
         ELSE \/ /\ tmp_path' = TRUE
                 /\ Return("tmp.write", "aud_load")
              \/ /\ tmp_path' = FALSE
                 /\ Raise("tmp.write", "OSError")
    /\ UNCHANGED <<call, progress, cache, tmp, pending, out, passed, result, escaped>>

\* librosa.load(tmp_path, sr=16000, mono=True)
LibrosaLoad ==
    /\ pc = "aud_load"
    /\ \/ Return("librosa.load", "aud_encode")
       \/ Raise("librosa.load", "RuntimeError")
    /\ UNCHANGED <<call, progress, cache, tmp, tmp_path, pending, out, passed,
                   result, escaped>>

\* sf.write(wav_buffer, y, sr, format="WAV")
SfWrite ==
    /\ pc = "aud_encode"
    /\ \/ Return("sf.write", "aud_get")
       \/ Raise("sf.write", "RuntimeError")
    /\ UNCHANGED <<call, progress, cache, tmp, tmp_path, pending, out, passed,
                   result, escaped>>

\* out = pipe(wav_buffer.read()); `return score, out` waits for the finally block
AudioPipe ==
    /\ pc = "aud_infer"
    /\ Infer("audio_pipe", "aud_finally")
    /\ pending' = IF exc' = "none" THEN RawResult(AudioScore(out'), out') ELSE pending
    /\ UNCHANGED <<call, progress, cache, tmp, tmp_path, passed, result, escaped>>

\* what follows the finally block: the pending return completes, or the
\* exception in flight goes on to the outer except clause
AfterFinally ==
    IF exc = "none"
      THEN pc' = "returned" /\ result' = pending
      ELSE pc' = Handler(pc) /\ result' = result

\* finally: if os.path.exists(tmp_path): os.unlink(tmp_path)
Finally ==
    /\ pc = "aud_finally"
    /\ IF tmp = "exists"
         THEN \/ /\ tmp' = "deleted"
                 /\ log' = Append(log, <<"os.unlink", "ok">>)
                 /\ exc' = exc
                 /\ AfterFinally
              \/ /\ tmp' = tmp
                 /\ result' = result
                 /\ Raise("os.unlink", "OSError")
         ELSE /\ tmp' = tmp
              /\ log' = log
              /\ exc' = exc
              /\ AfterFinally
    /\ UNCHANGED <<call, progress, cache, tmp_path, pending, out, passed, escaped>>

-----------------------------------------------------------------------------
(* Leaving an analyzer *)

ErrorPrefix(p) ==
    IF p = "img_except" THEN "Error processing image: "
    ELSE IF p = "aud_except" THEN "Error processing audio: "
    ELSE "Error processing text: "

\* except Exception as e: return 0, {"error": f"Error processing ...: {str(e)}"}
\* An exception the clause does not catch leaves the facade.
Except ==
    /\ pc \in {"img_except", "aud_except", "txt_except"}
    /\ pc' = "returned"
    /\ IF Catches(exc)
         THEN /\ result' = ErrorResult(ErrorPrefix(pc), exc)
              /\ escaped' = FALSE
         ELSE /\ result' = NoResult
              /\ escaped' = TRUE
    /\ UNCHANGED <<call, progress, cache, tmp, tmp_path, exc, pending, out, passed, log>>

\* The caller takes the pair (or the exception) and is free to call again;
\* the handles and the progress bar outlive the call.
CallerContinues ==
    /\ pc = "returned"
    /\ pc' = "idle"
    /\ call' = NoCall
    /\ tmp' = "none"
    /\ tmp_path' = FALSE
    /\ exc' = "none"
    /\ pending' = NoResult
    /\ out' = <<>>
    /\ passed' = <<>>
    /\ log' = <<>>
    /\ result' = NoResult
    /\ escaped' = FALSE
    /\ UNCHANGED <<progress, cache>>

-----------------------------------------------------------------------------

Next ==
    \/ \E m \in Modalities, b \in FileBytes, pb \in BOOLEAN, f \in Filenames :
          analyze_content(m, b, pb, f)
    \/ \E t \in TextValues, pb \in BOOLEAN : analyze_text(t, pb)
    \/ get_image_pipe
    \/ ImageOpen
    \/ ImagePipe
    \/ NamedTemporaryFile
    \/ TmpWrite
    \/ LibrosaLoad
    \/ SfWrite
    \/ get_audio_pipe
    \/ AudioPipe
    \/ Finally
    \/ get_text_detector
    \/ TextDetector
    \/ Except
    \/ CallerContinues

Spec == Init /\ [][Next]_vars

-----------------------------------------------------------------------------
(* Vocabulary of the properties *)

Returned == pc = "returned"

HasError(r) == "error" \in DOMAIN r.details

\* the call returned a classification, not an error
Succeeded == Returned /\ ~escaped /\ out # <<>> /\ ~HasError(result)

\* the analyzer the call was dispatched to
Analyzer ==
    IF call.fn = "analyze_text" THEN "text"
    ELSE IF call.modality = "Audio" THEN "audio"
    ELSE "image"

AuthenticIndicators(a) ==
    IF a = "image" THEN {S_real, S_realism}
    ELSE IF a = "audio" THEN {S_real, S_bonafide}
    ELSE {S_real, S_human}

FakeIndicators(a) ==
    IF a = "text" THEN {S_fake, S_generated} ELSE {S_fake, S_generated, S_spoof}

HasAny(label, subs) == \E sub \in subs : Contains(label, sub)

\* 100 * c for the fraction c
Pct(c) == (100 * c.num) \div c.den

InUnitInterval(c) == 0 <= c.num /\ c.num <= c.den

LogIndex == 1..Len(log)

Getters == {"get_image_pipe", "get_audio_pipe", "get_text_detector"}

Inferences == {"image_pipe", "audio_pipe", "detector"}

Invocations(whos) == {i \in LogIndex : log[i][1] \in whos}

Raised(who) == \E i \in LogIndex : log[i] = <<who, "raise">>

-----------------------------------------------------------------------------
(* C1 *)

\* C1: analyze_content and analyze_text are total: whatever the input and
\* whichever collaborator fails, no exception leaves the call, a call in
\* progress can always take its next step, and a finished call has returned
\* a (score, details) pair.
C1_Total ==
    /\ ~escaped
    /\ pc \notin {"idle", "returned"} => ENABLED Next
    /\ Returned => /\ DOMAIN result = {"score", "details"}
                   /\ result # NoResult

\* an audio call in which the release of the artifact failed has returned an error pair
C1_Witness ==
    /\ Returned
    /\ Raised("os.unlink")
    /\ result = [score |-> 0, details |-> [error |-> "Error processing audio: OSError"]]

-----------------------------------------------------------------------------
(* C2 *)

\* C2: after every call of the audio analyzer the temporary artifact the call
\* created no longer exists when the call returns, whichever of writing,
\* decode, re-encode, handle acquisition or inference failed, or none.
C2_ArtifactReleased ==
    (Returned /\ Analyzer = "audio" /\ tmp # "none" /\ ~Raised("os.unlink"))
        => tmp = "deleted"

-----------------------------------------------------------------------------
(* C3 *)

\* C3: every returned result with an "error" key has score 0, and every
\* returned result without one has 0 <= score <= 100 when the top confidence
\* lies in [0, 1].
C3_ResultInvariant ==
    (Returned /\ ~escaped) =>
        /\ HasError(result) => result.score = 0
        /\ (~HasError(result) /\ InUnitInterval(out[1].score))
              => (0 <= result.score /\ result.score <= 100)

\* the image classifier answered "Realism" with confidence 0.9: score 10
C3_Witness ==
    /\ Succeeded
    /\ Analyzer = "image"
    /\ out[1] = [label |-> <<"R","e","a","l","i","s","m">>, score |-> [num |-> 9, den |-> 10]]
    /\ result.score = 10

-----------------------------------------------------------------------------
(* C5 *)

\* C5: for a text whose stripped length is below 50, analyze_text returns
\* score 0 with the error "Text is too short for accurate analysis" and invokes
\* neither the text handle getter nor the text inference collaborator.
C5_ShortTextRejected ==
    (call.fn = "analyze_text" /\ call.text.isStr /\ StrLen(Strip(call.text.runs)) < 50)
        => /\ Returned
           /\ result.score = 0
           /\ HasError(result)
           /\ result.details.error = "Text is too short for accurate analysis"
           /\ log = <<>>

\* a long text that is short once stripped: 975 blanks around 49 characters
C5_Witness ==
    /\ Returned
    /\ call.fn = "analyze_text"
    /\ call.text.isStr
    /\ StrLen(call.text.runs) >= 1000
    /\ StrLen(Strip(call.text.runs)) = 49
    /\ HasError(result)

-----------------------------------------------------------------------------
(* C6 *)

\* C6: for a modality that is not a declared one, analyze_content returns
\* exactly (0, {"error": "Unsupported modality"}), invokes no collaborator and
\* creates no temporary artifact.
C6_UnsupportedModality ==
    (call.fn = "analyze_content" /\ call.modality \notin DeclaredModalities)
        => /\ Returned
           /\ result = [score |-> 0, details |-> [error |-> "Unsupported modality"]]
           /\ log = <<>>
           /\ tmp = "none"

C6_Witness ==
    /\ Returned
    /\ call.fn = "analyze_content"
    /\ call.modality = "Document"
    /\ result = [score |-> 0, details |-> [error |-> "Unsupported modality"]]

-----------------------------------------------------------------------------
(* C7 *)

\* C7: the score of a successful analysis depends on the top classification
\* only: 100 * (1 - c) when the lower-cased label has an authentic indicator of
\* the modality and no fake indicator, 100 * c when it has no authentic
\* indicator.
C7_ScoreOfTopClassification ==
    Succeeded =>
        LET label == Lower(out[1].label)
            c == out[1].score
            auth == HasAny(label, AuthenticIndicators(Analyzer))
            fake == HasAny(label, FakeIndicators(Analyzer))
        IN  /\ (auth /\ ~fake) => result.score = 100 - Pct(c)
            /\ ~auth => result.score = Pct(c)

\* the text detector answered "Human" with confidence 0.82: score 18
C7_Witness ==
    /\ Succeeded
    /\ Analyzer = "text"
    /\ out[1] = [label |-> <<"H","u","m","a","n">>, score |-> [num |-> 41, den |-> 50]]
    /\ result.score = 18

-----------------------------------------------------------------------------
(* C8 *)

\* C8: in every analyzer a label with both an authentic and a fake indicator
\* is scored as authentic: 100 * (1 - c).
C8_AuthenticFirst ==
    Succeeded =>
        LET label == Lower(out[1].label)
            c == out[1].score
        IN  (/\ HasAny(label, AuthenticIndicators(Analyzer))
             /\ HasAny(label, FakeIndicators(Analyzer)))
                => result.score = 100 - Pct(c)

-----------------------------------------------------------------------------
(* C9 *)

\* C9: no retries: within one call the handle getter and the inference
\* collaborator are invoked at most once each, and once something has raised
\* nothing is invoked any more but the release of the audio artifact.
C9_NoRetries ==
    /\ Cardinality(Invocations(Getters)) <= 1
    /\ Cardinality(Invocations(Inferences)) <= 1
    /\ \A i, j \in LogIndex :
          (i < j /\ log[i][2] = "raise") => log[j][1] = "os.unlink"

\* the audio inference raised, the artifact was released, the error returned
C9_Witness ==
    /\ Returned
    /\ Raised("audio_pipe")
    /\ log[Len(log)] = <<"os.unlink", "ok">>
    /\ HasError(result)

-----------------------------------------------------------------------------
(* C10 *)

\* C10: whenever the text inference collaborator is invoked, the string it is
\* given has a stripped length of at least 50.
C10_GuardOnClassifiedText ==
    Invocations({"detector"}) # {} => StrLen(Strip(passed)) >= 50

====
